---- MODULE Spec2Model ----
(***************************************************************************)
(* A model of the recursive-descent JSON parser and of the Display         *)
(* serializer of src/src/main.rs.                                          *)
(*                                                                         *)
(* A character is a one-character string ("n", "[", " ", "\f"); a          *)
(* character without a TLA+ escape carries its code point name             *)
(* ("U+0008").  A text (Vec<char>, String) is a sequence of characters.    *)
(* The parser is a state machine: the cursor (input, position), a control  *)
(* point pc, the stack of the active parse_array frames, the locals of the *)
(* running leaf function and the Result being returned.  Every action is   *)
(* one step of one function of the source; a step calls next_char at most  *)
(* once.                                                                   *)
(***************************************************************************)
EXTENDS Integers, Sequences, FiniteSets, TLC

VARIABLES
    todo,            \* main: the texts still to be handed to Parser::new
    outcomes,        \* main: the Result of every finished parse() call, in order
    input,           \* Parser.input
    position,        \* Parser.position
    pc,              \* the control point of the running parse() call
    elements,        \* parse_array: the `elements` Vec of every active frame, innermost last
    matched,         \* consume_str: how many characters of s the loop has matched
    result,          \* parse_string: the `result` String
    number_str,      \* parse_number: the `number_str` String
    start_pos,       \* parse_number: `start_pos`
    has_digits,      \* parse_number: `has_decimal_digits` / `has_exp_digits`
    ret              \* the Result a sub-parser hands to its caller

vars == <<todo, outcomes, input, position, pc, elements, matched, result,
          number_str, start_pos, has_digits, ret>>

-----------------------------------------------------------------------------
(* Characters *)

Digit == {"0", "1", "2", "3", "4", "5", "6", "7", "8", "9"}

is_ascii_digit(c) == c \in Digit

DigitVal(c) ==
    CASE c = "0" -> 0 [] c = "1" -> 1 [] c = "2" -> 2 [] c = "3" -> 3
      [] c = "4" -> 4 [] c = "5" -> 5 [] c = "6" -> 6 [] c = "7" -> 7
      [] c = "8" -> 8 [] c = "9" -> 9

DigitChar(d) ==
    CASE d = 0 -> "0" [] d = 1 -> "1" [] d = 2 -> "2" [] d = 3 -> "3"
      [] d = 4 -> "4" [] d = 5 -> "5" [] d = 6 -> "6" [] d = 7 -> "7"
      [] d = 8 -> "8" [] d = 9 -> "9"

\* The four whitespace characters of the JSON grammar.
JsonWhitespace == {" ", "\t", "\n", "\r"}

\* char::is_whitespace: the Unicode White_Space property.
White_Space ==
    {"\t", "\n", "U+000B", "\f", "\r", " ", "U+0085", "U+00A0", "U+1680",
     "U+2000", "U+2001", "U+2002", "U+2003", "U+2004", "U+2005", "U+2006",
     "U+2007", "U+2008", "U+2009", "U+200A", "U+2028", "U+2029", "U+202F",
     "U+205F", "U+3000"}

\* A skip_whitespace that knows the space only.
is_space(c) == c = " "

is_whitespace(c) == c \in White_Space

-----------------------------------------------------------------------------
(* JsonValue and f64 *)

\* An f64 that is not NaN: a signed zero, a signed infinity, or
\* (-1)^neg * m * 10^e with m > 0 not divisible by 10.
F64(neg, m, e) == [neg |-> neg, inf |-> FALSE, m |-> m, e |-> e]
F64Inf(neg) == [neg |-> neg, inf |-> TRUE, m |-> 0, e |-> 0]
F64Zero(neg) == F64(neg, 0, 0)

JsonNull == <<"Null">>
JsonBoolean(b) == <<"Boolean", b>>
JsonNumber(n) == <<"Number", n>>
JsonString(s) == <<"String", s>>
JsonArray(a) == <<"Array", a>>
JsonObject(o) == <<"Object", o>>

\* f64's PartialEq: 0.0 == -0.0, every other non-NaN value equals only itself.
F64Eq(a, b) == IF (~a.inf /\ a.m = 0) /\ (~b.inf /\ b.m = 0) THEN TRUE ELSE a = b

RECURSIVE JsonEq(_, _)
\* #[derive(PartialEq)] on JsonValue: same variant and equal payloads.
JsonEq(v, w) ==
    /\ v[1] = w[1]
    /\ CASE v[1] = "Null" -> TRUE
         [] v[1] = "Number" -> F64Eq(v[2], w[2])
         [] v[1] = "Array" ->
               /\ Len(v[2]) = Len(w[2])
               /\ \A i \in 1..Len(v[2]) : JsonEq(v[2][i], w[2][i])
         [] v[1] = "Object" ->
               /\ DOMAIN v[2] = DOMAIN w[2]
               /\ \A k \in DOMAIN v[2] : JsonEq(v[2][k], w[2][k])
         [] OTHER -> v[2] = w[2]

-----------------------------------------------------------------------------
(* str::parse::<f64> *)

RECURSIVE SkipDigits(_, _)
\* The first index at or after i of s that holds no ASCII digit.
SkipDigits(s, i) ==
    IF i <= Len(s) /\ is_ascii_digit(s[i]) THEN SkipDigits(s, i + 1) ELSE i

RECURSIVE DigitsToNat(_)
DigitsToNat(ds) ==
    IF ds = <<>> THEN 0
    ELSE 10 * DigitsToNat(SubSeq(ds, 1, Len(ds) - 1)) + DigitVal(ds[Len(ds)])

RECURSIVE NumDigits(_)
NumDigits(m) == IF m < 10 THEN 1 ELSE 1 + NumDigits(m \div 10)

RECURSIVE Pow10(_)
Pow10(k) == IF k = 0 THEN 1 ELSE 10 * Pow10(k - 1)

\* The five leading decimal digits of m (m padded with zeros, or cut).
Lead5(m) ==
    IF NumDigits(m) <= 5 THEN m * Pow10(5 - NumDigits(m))
    ELSE m \div Pow10(NumDigits(m) - 5)

RECURSIVE Normalize(_, _, _)
\* The f64 nearest to (-1)^neg * m * 10^e.  The decimal is kept exactly
\* (short decimals map to distinct doubles); above f64::MAX
\* (1.7976931348623157e308) it rounds to infinity, below half the least
\* subnormal (2.4703e-324) to zero.
Normalize(neg, m, e) ==
    IF m = 0 THEN F64Zero(neg)
    ELSE IF m % 10 = 0 THEN Normalize(neg, m \div 10, e + 1)
    ELSE LET d == NumDigits(m) + e
         IN  IF d > 309 \/ (d = 309 /\ Lead5(m) >= 17977) THEN F64Inf(neg)
             ELSE IF d < -323 \/ (d = -323 /\ Lead5(m) <= 24703) THEN F64Zero(neg)
             ELSE F64(neg, m, e)

\* The fields of a decimal float literal, as core::num::dec2flt splits it.
FloatFields(s) ==
    LET signed == Len(s) >= 1 /\ s[1] \in {"-", "+"}
        i1 == IF signed THEN 2 ELSE 1
        i2 == SkipDigits(s, i1)
        hasdot == i2 <= Len(s) /\ s[i2] = "."
        i3 == IF hasdot THEN i2 + 1 ELSE i2
        i4 == SkipDigits(s, i3)
        hasexp == i4 <= Len(s) /\ s[i4] \in {"e", "E"}
        i5 == IF hasexp THEN i4 + 1 ELSE i4
        expsigned == hasexp /\ i5 <= Len(s) /\ s[i5] \in {"-", "+"}
        i6 == IF expsigned THEN i5 + 1 ELSE i5
        i7 == IF hasexp THEN SkipDigits(s, i6) ELSE i6
    IN  [neg |-> Len(s) >= 1 /\ s[1] = "-",
         int |-> SubSeq(s, i1, i2 - 1),
         frac |-> SubSeq(s, i3, i4 - 1),
         hasexp |-> hasexp,
         expneg |-> expsigned /\ s[i5] = "-",
         exp |-> SubSeq(s, i6, i7 - 1),
         end |-> i7]

\* s.parse::<f64>() is Ok: digits around an optional '.', at least one of
\* them, an optional exponent with at least one digit, and nothing else.
FromStrOk(s) ==
    LET f == FloatFields(s)
    IN  /\ Len(f.int) + Len(f.frac) >= 1
        /\ f.hasexp => Len(f.exp) >= 1
        /\ f.end = Len(s) + 1

\* The value of s.parse::<f64>() when it is Ok.
FromStr(s) ==
    LET f == FloatFields(s)
        x == DigitsToNat(f.exp)
    IN  Normalize(f.neg, DigitsToNat(f.int \o f.frac),
                  (IF f.expneg THEN -x ELSE x) - Len(f.frac))

-----------------------------------------------------------------------------
(* impl fmt::Display for JsonValue *)

RECURSIVE NatDigits(_)
\* The decimal digits of a natural number.
NatDigits(m) ==
    IF m < 10 THEN <<DigitChar(m)>>
    ELSE NatDigits(m \div 10) \o <<DigitChar(m % 10)>>

Zeros(k) == [i \in 1..k |-> "0"]

\* write!(f, "{}", n) for an f64: the shortest decimal that reads back as
\* n, never in exponent notation.
DisplayF64(n) ==
    (IF n.neg THEN <<"-">> ELSE <<>>) \o
    (IF n.inf THEN <<"i", "n", "f">>
     ELSE IF n.e >= 0 THEN NatDigits(n.m) \o Zeros(n.e)
     ELSE LET d == NatDigits(n.m)
              k == -n.e
          IN  IF Len(d) > k
              THEN SubSeq(d, 1, Len(d) - k) \o <<".">> \o SubSeq(d, Len(d) - k + 1, Len(d))
              ELSE <<"0", ".">> \o Zeros(k - Len(d)) \o d)

\* One character of a JsonValue::String, as the match of fmt writes it.
EscapeChar(c) ==
    CASE c = "\"" -> <<"\\", "\"">>
      [] c = "\\" -> <<"\\", "\\">>
      [] c = "\n" -> <<"\\", "n">>
      [] c = "\r" -> <<"\\", "r">>
      [] c = "\t" -> <<"\\", "t">>
      [] c = "U+0008" -> <<"\\", "b">>
      [] c = "\f" -> <<"\\", "f">>
      [] OTHER -> <<c>>

RECURSIVE Flatten(_)
Flatten(ss) == IF ss = <<>> THEN <<>> ELSE Head(ss) \o Flatten(Tail(ss))

DisplayString(s) == <<"\"">> \o Flatten([i \in 1..Len(s) |-> EscapeChar(s[i])]) \o <<"\"">>

\* Every order in which a HashMap with these keys can be iterated.
IterOrders(keys) ==
    {o \in [1..Cardinality(keys) -> keys] : \A i, j \in DOMAIN o : o[i] = o[j] => i = j}

RECURSIVE Display(_)
\* The texts fmt can write for v: one text, or one per iteration order of
\* the HashMap of every Object in v.
Display(v) ==
    CASE v[1] = "Null" -> {<<"n", "u", "l", "l">>}
      [] v[1] = "Boolean" ->
            {IF v[2] THEN <<"t", "r", "u", "e">> ELSE <<"f", "a", "l", "s", "e">>}
      [] v[1] = "Number" -> {DisplayF64(v[2])}
      [] v[1] = "String" -> {DisplayString(v[2])}
      [] v[1] = "Array" ->
            LET a == v[2]
                Items == {c \in [1..Len(a) -> UNION {Display(a[i]) : i \in 1..Len(a)}] :
                             \A i \in 1..Len(a) : c[i] \in Display(a[i])}
            IN  {<<"[">> \o
                 Flatten([i \in 1..Len(a) |->
                             (IF i > 1 THEN <<",", " ">> ELSE <<>>) \o c[i]]) \o
                 <<"]">> : c \in Items}
      [] v[1] = "Object" ->
            LET o == v[2]
                Items == {c \in [DOMAIN o -> UNION {Display(o[k]) : k \in DOMAIN o}] :
                             \A k \in DOMAIN o : c[k] \in Display(o[k])}
            IN  {<<"{">> \o
                 Flatten([i \in 1..Len(ord) |->
                             (IF i > 1 THEN <<",", " ">> ELSE <<>>) \o
                             <<"\"">> \o ord[i] \o <<"\"", ":", " ">> \o c[ord[i]]]) \o
                 <<"}">> : c \in Items, ord \in IterOrders(DOMAIN o)}

-----------------------------------------------------------------------------
(* Parser: the cursor *)

None == <<>>
Some(c) == <<c>>

\* Result<JsonValue, ParseError>, and the panic of an unimplemented function.
Ok(v) == <<"Ok", v>>
ParseError(message, at) == <<"Err", message, at>>
Panic == <<"Panic">>

peek_char == IF position < Len(input) THEN Some(input[position + 1]) ELSE None

\* A next_char that advances at the end of the input too.
next_char_unchecked == position + 1

\* Parser.position after next_char (which returns peek_char).
next_char == IF peek_char # None THEN position + 1 ELSE position

\* An error that carries the start of the input.
error_at_start(message) == ParseError(message, 0)

\* self.error(message): the error carries the position of the cursor.
error(message) == ParseError(message, position)

\* self.error(message) called after a next_char of the same step.
error_after_next(message) == ParseError(message, next_char)

driver == <<todo, outcomes>>
cursor == <<input, position>>
number_locals == <<number_str, start_pos, has_digits>>

\* A sub-parser returns r to the function that called parse_value.
Return(r) == ret' = r /\ pc' = "value_ret"

\* parse() returns r to main.
Finish(r) ==
    /\ outcomes' = Append(outcomes, r)
    /\ pc' = "main"
    /\ ret' = <<>>

-----------------------------------------------------------------------------
(* main: one Parser per text *)

New ==
    /\ pc = "main"
    /\ todo # <<>>
    /\ input' = Head(todo)
    /\ todo' = Tail(todo)
    /\ position' = 0
    /\ pc' = "parse_ws1"
    /\ UNCHANGED <<outcomes, elements, matched, result, number_locals, ret>>

-----------------------------------------------------------------------------
(* Parser::skip_whitespace, one iteration of its loop *)

WhitespacePoints == {"parse_ws1", "value_ws", "parse_ws2", "array_ws1", "array_ws2", "array_ws3"}

\* The statement after each call of skip_whitespace.
AfterWhitespace(at) ==
    CASE at = "parse_ws1" -> "value_ws"
      [] at = "value_ws" -> "value"
      [] at = "parse_ws2" -> "parse_check"
      [] at = "array_ws1" -> "array_first"
      [] at = "array_ws2" -> "array_sep"
      [] at = "array_ws3" -> "array_comma"

SkipWhitespace ==
    /\ pc \in WhitespacePoints
    /\ IF peek_char # None /\ is_whitespace(peek_char[1])
       THEN position' = position + 1 /\ pc' = pc
       ELSE position' = position /\ pc' = AfterWhitespace(pc)
    /\ UNCHANGED <<driver, input, elements, matched, result, number_locals, ret>>

-----------------------------------------------------------------------------
(* Parser::parse *)

Parse ==
    /\ \/ /\ pc = "value_ret"
          /\ elements = <<>>
          /\ IF ret[1] = "Err"
             THEN Finish(ret)
             ELSE pc' = "parse_ws2" /\ UNCHANGED <<outcomes, ret>>
       \/ /\ pc = "parse_check"
          /\ IF peek_char # None
             THEN Finish(error(<<"unexpected trailing characters">>))
             ELSE Finish(ret)
    /\ UNCHANGED <<todo, cursor, elements, matched, result, number_locals>>

-----------------------------------------------------------------------------
(* Parser::parse_value, after its skip_whitespace *)

ParseValue ==
    /\ pc = "value"
    /\ IF peek_char = None
       THEN Return(error(<<"unexpected end of input">>))
       ELSE LET c == peek_char[1]
            IN  CASE c = "n" -> pc' = "parse_null" /\ ret' = ret
                  [] c = "t" -> pc' = "parse_true" /\ ret' = ret
                  [] c = "f" -> pc' = "parse_false" /\ ret' = ret
                  [] c = "\"" -> pc' = "parse_string" /\ ret' = ret
                  [] is_ascii_digit(c) \/ c = "-" -> pc' = "parse_number" /\ ret' = ret
                  [] c = "[" -> pc' = "parse_array" /\ ret' = ret
                  [] c = "{" -> pc' = "parse_object" /\ ret' = ret
                  [] OTHER -> Return(error(<<"unexpected character: ", c>>))
    /\ UNCHANGED <<driver, cursor, elements, matched, result, number_locals>>

-----------------------------------------------------------------------------
(* Parser::consume_str and the three literals *)

\* One iteration of the loop of consume_str(s), in a function that returns
\* Ok(v) when consume_str is done.
ConsumeStr(s, v) ==
    LET expected_char == s[matched + 1]
    IN  /\ position' = next_char
        /\ IF peek_char = None
           THEN /\ Return(error_after_next(<<"Expected '", expected_char, "', found end of input">>))
                /\ matched' = 0
           ELSE IF peek_char[1] = expected_char
           THEN IF matched + 1 = Len(s)
                THEN Return(Ok(v)) /\ matched' = 0
                ELSE matched' = matched + 1 /\ UNCHANGED <<pc, ret>>
           ELSE /\ Return(error_after_next(<<"Expected '", expected_char, "', found '", peek_char[1], "'">>))
                /\ matched' = 0
        /\ UNCHANGED <<driver, input, elements, result, number_locals>>

ParseNull == pc = "parse_null" /\ ConsumeStr(<<"n", "u", "l", "l">>, JsonNull)

ParseTrue == pc = "parse_true" /\ ConsumeStr(<<"t", "r", "u", "e">>, JsonBoolean(TRUE))

ParseFalse == pc = "parse_false" /\ ConsumeStr(<<"f", "a", "l", "s", "e">>, JsonBoolean(FALSE))

-----------------------------------------------------------------------------
(* Parser::parse_string *)

\* The character a single-character escape denotes, None if there is none.
Unescape(escaped_char) ==
    CASE escaped_char = "\"" -> Some("\"")
      [] escaped_char = "\\" -> Some("\\")
      [] escaped_char = "/" -> Some("/")
      [] escaped_char = "b" -> Some("U+0008")
      [] escaped_char = "f" -> Some("\f")
      [] escaped_char = "n" -> Some("\n")
      [] escaped_char = "r" -> Some("\r")
      [] escaped_char = "t" -> Some("\t")
      [] OTHER -> None

ParseString ==
    /\ position' = next_char
    /\ \/ /\ pc = "parse_string"
          /\ pc' = "string_loop"
          /\ result' = <<>>
          /\ ret' = ret
       \/ /\ pc = "string_loop"
          /\ IF peek_char = None
             THEN Return(error_after_next(<<"Unterminated string">>)) /\ result' = <<>>
             ELSE LET c == peek_char[1]
                  IN  CASE c = "\"" -> Return(Ok(JsonString(result))) /\ result' = <<>>
                        [] c = "\\" -> pc' = "string_escape" /\ UNCHANGED <<result, ret>>
                        [] OTHER -> result' = Append(result, c) /\ UNCHANGED <<pc, ret>>
       \/ /\ pc = "string_escape"
          /\ IF peek_char = None
             THEN Return(error_after_next(<<"unterminated escape sequence">>)) /\ result' = <<>>
             ELSE LET escaped_char == peek_char[1]
                  IN  IF Unescape(escaped_char) # None
                      THEN /\ result' = Append(result, Unescape(escaped_char)[1])
                           /\ pc' = "string_loop"
                           /\ ret' = ret
                      ELSE /\ Return(error_after_next(<<"invalid escape sequence: \\", escaped_char>>))
                           /\ result' = <<>>
    /\ UNCHANGED <<driver, input, elements, matched, number_locals>>

-----------------------------------------------------------------------------
(* Parser::parse_number *)

\* A return of parse_number: its locals go out of scope.
NumberReturn(r) ==
    /\ Return(r)
    /\ number_str' = <<>>
    /\ start_pos' = 0
    /\ has_digits' = FALSE
    /\ position' = position

\* number_str.push(self.next_char().unwrap()), then the statement at `to`.
PushNext(to) ==
    /\ number_str' = Append(number_str, peek_char[1])
    /\ position' = next_char
    /\ pc' = to

\* No character is consumed; control moves to the statement at `to`.
Goto(to) == pc' = to /\ UNCHANGED <<position, number_str>>

PeekIs(S) == peek_char # None /\ peek_char[1] \in S

\* An exponent marker that must be lower case.
ExponentMarkerLower == {"e"}

\* c == 'e' || c == 'E'
ExponentMarker == {"e", "E"}

ParseNumber ==
    /\ \/ /\ pc = "parse_number"
          /\ start_pos' = position
          /\ pc' = "number_int"
          /\ IF PeekIs({"-"})
             THEN number_str' = <<"-">> /\ position' = next_char
             ELSE number_str' = <<>> /\ position' = position
          /\ UNCHANGED <<has_digits, ret>>
       \/ /\ pc = "number_int"
          /\ IF PeekIs({"0"})
             THEN PushNext("number_dot") /\ UNCHANGED <<start_pos, has_digits, ret>>
             ELSE IF PeekIs(Digit)
             THEN PushNext("number_digits") /\ UNCHANGED <<start_pos, has_digits, ret>>
             ELSE NumberReturn(error(<<"expected digit after minus sign or invalid number">>))
       \/ /\ pc = "number_digits"
          /\ IF PeekIs(Digit) THEN PushNext("number_digits") ELSE Goto("number_dot")
          /\ UNCHANGED <<start_pos, has_digits, ret>>
       \/ /\ pc = "number_dot"
          /\ IF PeekIs({"."}) THEN PushNext("number_frac") ELSE Goto("number_exp")
          /\ has_digits' = FALSE
          /\ UNCHANGED <<start_pos, ret>>
       \/ /\ pc = "number_frac"
          /\ IF PeekIs(Digit)
             THEN PushNext("number_frac") /\ has_digits' = TRUE /\ UNCHANGED <<start_pos, ret>>
             ELSE IF ~has_digits
             THEN NumberReturn(error(<<"expected digit after decimal point">>))
             ELSE Goto("number_exp") /\ UNCHANGED <<start_pos, has_digits, ret>>
       \/ /\ pc = "number_exp"
          /\ IF PeekIs(ExponentMarker) THEN PushNext("number_sign") ELSE Goto("number_end")
          /\ UNCHANGED <<start_pos, has_digits, ret>>
       \/ /\ pc = "number_sign"
          /\ IF PeekIs({"+", "-"}) THEN PushNext("number_expdigits") ELSE Goto("number_expdigits")
          /\ has_digits' = FALSE
          /\ UNCHANGED <<start_pos, ret>>
       \/ /\ pc = "number_expdigits"
          /\ IF PeekIs(Digit)
             THEN PushNext("number_expdigits") /\ has_digits' = TRUE /\ UNCHANGED <<start_pos, ret>>
             ELSE IF ~has_digits
             THEN NumberReturn(error(<<"expected digit in exponent">>))
             ELSE Goto("number_end") /\ UNCHANGED <<start_pos, has_digits, ret>>
       \/ /\ pc = "number_end"
          /\ IF FromStrOk(number_str)
             THEN NumberReturn(Ok(JsonNumber(FromStr(number_str))))
             ELSE NumberReturn(ParseError(<<"invalid number format: '">> \o number_str \o <<"'">>,
                                          start_pos))
    /\ UNCHANGED <<driver, input, elements, matched, result>>

-----------------------------------------------------------------------------
(* Parser::parse_array *)

Top(s) == s[Len(s)]
Pop(s) == SubSeq(s, 1, Len(s) - 1)

\* A return of parse_array: its frame is popped.
ArrayReturn(r) == Return(r) /\ elements' = Pop(elements)

\* A parse_array without the check for a trailing comma.
TrailingCommaUnchecked == FALSE

\* if let Some(']') = self.peek_char(), after a ',' and skip_whitespace
TrailingComma == PeekIs({"]"})

ParseArray ==
    /\ \/ /\ pc = "parse_array"
          /\ position' = next_char
          /\ elements' = Append(elements, <<>>)
          /\ pc' = "array_ws1"
          /\ ret' = ret
       \/ /\ pc = "array_first"
          /\ IF PeekIs({"]"})
             THEN position' = next_char /\ ArrayReturn(Ok(JsonArray(Top(elements))))
             ELSE pc' = "value_ws" /\ UNCHANGED <<position, elements, ret>>
       \/ /\ pc = "value_ret"
          /\ elements # <<>>
          /\ position' = position
          /\ IF ret[1] = "Err"
             THEN ArrayReturn(ret)
             ELSE /\ elements' = Append(Pop(elements), Append(Top(elements), ret[2]))
                  /\ pc' = "array_ws2"
                  /\ ret' = <<>>
       \/ /\ pc = "array_sep"
          /\ IF PeekIs({","})
             THEN position' = next_char /\ pc' = "array_ws3" /\ UNCHANGED <<elements, ret>>
             ELSE IF PeekIs({"]"})
             THEN position' = next_char /\ ArrayReturn(Ok(JsonArray(Top(elements))))
             ELSE IF peek_char # None
             THEN /\ position' = position
                  /\ ArrayReturn(error(<<"expected ',' or ']' in array, found '", peek_char[1], "'">>))
             ELSE position' = position /\ ArrayReturn(error(<<"unterminated array">>))
       \/ /\ pc = "array_comma"
          /\ position' = position
          /\ IF TrailingComma
             THEN ArrayReturn(error(<<"unexptected trailing comma in array">>))
             ELSE pc' = "value_ws" /\ UNCHANGED <<elements, ret>>
    /\ UNCHANGED <<driver, input, matched, result, number_locals>>

-----------------------------------------------------------------------------
(* Parser::parse_object *)

\* todo!() panics: the call of parse() never returns and main is aborted.
ParseObject ==
    /\ pc = "parse_object"
    /\ outcomes' = Append(outcomes, Panic)
    /\ pc' = "aborted"
    /\ UNCHANGED <<todo, cursor, elements, matched, result, number_locals, ret>>

-----------------------------------------------------------------------------
(* Specifications *)

Start(texts) ==
    /\ todo = texts
    /\ outcomes = <<>>
    /\ input = <<>>
    /\ position = 0
    /\ pc = "main"
    /\ elements = <<>>
    /\ matched = 0
    /\ result = <<>>
    /\ number_str = <<>>
    /\ start_pos = 0
    /\ has_digits = FALSE
    /\ ret = <<>>

Next ==
    \/ New
    \/ SkipWhitespace
    \/ Parse
    \/ ParseValue
    \/ ParseNull
    \/ ParseTrue
    \/ ParseFalse
    \/ ParseString
    \/ ParseNumber
    \/ ParseArray
    \/ ParseObject

RECURSIVE Concat(_)
Concat(parts) == IF parts = <<>> THEN <<>> ELSE Head(parts) \o Concat(Tail(parts))

\* The texts made of at most n parts out of P.
TextsOf(P, n) == {Concat(ps) : ps \in UNION {[1..k -> P] : k \in 0..n}}

-----------------------------------------------------------------------------
(* Spec: one parse() call on a text of at most MaxParts parts *)

MaxParts == 3

Parts ==
    {<<"n", "u", "l", "l">>, <<"t", "r", "u", "e">>, <<"f", "a", "l", "s", "e">>,
     <<"n", "u", "l">>, <<"\"">>, <<"\\">>, <<"x">>, <<"1">>, <<"-">>, <<".">>,
     <<"e">>, <<"[">>, <<"]">>, <<",">>, <<"{">>, <<"}">>, <<" ">>, <<"\t">>, <<"\n">>,
     <<"\r">>, <<"\f">>}

Init == \E t \in TextsOf(Parts, MaxParts) : Start(<<t>>)

Spec == Init /\ [][Next]_vars

-----------------------------------------------------------------------------
(* Properties of one parse() call *)

\* parse() has returned to main, or has panicked.
Done == pc \in {"main", "aborted"} /\ outcomes # <<>>

\* The Result of the last parse() call; `input` is still its text.
Outcome == outcomes[Len(outcomes)]

IsOk(r) == r[1] = "Ok"
IsErr(r) == r[1] = "Err"

AllIn(s, S) == \A i \in 1..Len(s) : s[i] \in S

RECURSIVE TrimLeft(_, _)
TrimLeft(s, S) == IF s # <<>> /\ Head(s) \in S THEN TrimLeft(Tail(s), S) ELSE s

RECURSIVE TrimRight(_, _)
TrimRight(s, S) ==
    IF s # <<>> /\ s[Len(s)] \in S THEN TrimRight(SubSeq(s, 1, Len(s) - 1), S) ELSE s

\* The first and the last character a JSON value can have.
ValueFirst == {"n", "t", "f", "\"", "-", "[", "{"} \cup Digit
ValueLast == {"l", "e", "\"", "]", "}"} \cup Digit

\* C1: parse returns Ok only if every character outside the parsed value is
\* leading or trailing JSON whitespace (space, tab, newline, carriage
\* return) and nothing is left unread: without its leading and trailing
\* JSON whitespace the text begins and ends with a character of a value.
C1_OnlyJsonWhitespaceAround ==
    (Done /\ IsOk(Outcome)) =>
        LET core == TrimRight(TrimLeft(input, JsonWhitespace), JsonWhitespace)
        IN  /\ position = Len(input)
            /\ core # <<>>
            /\ core[1] \in ValueFirst
            /\ core[Len(core)] \in ValueLast

\* C2: for an empty or whitespace-only text parse returns the error
\* "unexpected end of input" at the length of the text, never a value.
C2_EmptyInputError ==
    (Done /\ AllIn(input, White_Space)) =>
        Outcome = ParseError(<<"unexpected end of input">>, Len(input))

C2_Witness ==
    /\ Done
    /\ Len(input) >= 2
    /\ AllIn(input, JsonWhitespace)
    /\ Outcome = ParseError(<<"unexpected end of input">>, Len(input))

\* C4: a text that starts with '{' gets a Result, and "{}" is parsed to the
\* empty Object.
C4_ObjectParsed ==
    (Done /\ input # <<>> /\ input[1] = "{") =>
        /\ Outcome # Panic
        /\ input = <<"{", "}">> => Outcome = Ok(JsonObject(<<>>))

\* The errors the end of the input causes, by their message.
EndErrors ==
    {"unexpected end of input", "Unterminated string",
     "unterminated escape sequence", "unterminated array"}

\* C9: the offset of a ParseError caused by a character is the zero-based
\* index of that character in the text; the offset of one caused by the end
\* of the input is the length of the text.
C9_ErrorOffset ==
    (Done /\ IsErr(Outcome)) =>
        LET message == Outcome[2]
            offset == Outcome[3]
            At(c) == offset < Len(input) /\ input[offset + 1] = c
        IN  /\ message[1] \in {"unexpected character: ", "invalid escape sequence: \\"}
                => At(message[2])
            /\ message[1] = "expected ',' or ']' in array, found '" => At(message[2])
            /\ message[1] = "unexpected trailing characters" => offset < Len(input)
            /\ message[1] = "Expected '" =>
                  IF message[3] = "', found end of input"
                  THEN offset = Len(input)
                  ELSE At(message[4])
            /\ message[1] \in EndErrors => offset = Len(input)

\* C10: during a parse() call 0 <= position <= input length, a step leaves
\* position unchanged or adds exactly one, the input buffer is not
\* modified, and the position of a returned ParseError is in
\* [0, input length].
C10_CursorInvariant ==
    [][/\ 0 <= position' /\ position' <= Len(input')
       /\ pc # "main" => (position' \in {position, position + 1} /\ input' = input)
       /\ (ret' # <<>> /\ IsErr(ret')) => (0 <= ret'[3] /\ ret'[3] <= Len(input'))
       /\ \A i \in DOMAIN outcomes' :
             IsErr(outcomes'[i]) => (0 <= outcomes'[i][3] /\ outcomes'[i][3] <= Len(input'))]_vars

C10_Witness ==
    /\ Done
    /\ IsErr(Outcome)
    /\ Outcome[3] = Len(input)
    /\ Len(input) >= 6

-----------------------------------------------------------------------------
(* SpecNumber: number texts, alone and as the only element of an array *)

MaxNumLen == 5

NumberChars == {<<"-">>, <<"+">>, <<".">>, <<"e">>, <<"E">>, <<"0">>, <<"1">>}

InitNumber ==
    \E t \in TextsOf(NumberChars, MaxNumLen) :
        \/ Start(<<t>>)
        \/ t # <<>> /\ Start(<<<<"[">> \o t \o <<"]">>>>)

NextNumber ==
    \/ New
    \/ SkipWhitespace
    \/ Parse
    \/ ParseValue
    \/ ParseNumber
    \/ ParseArray

SpecNumber == InitNumber /\ [][NextNumber]_vars

\* The strict JSON number grammar
\* -?(0|[1-9][0-9]*)(\.[0-9]+)?([eE][+-]?[0-9]+)?
IsDigits(d) == d # <<>> /\ AllIn(d, Digit)
IsSign(s) == s \in {<<>>, <<"-">>}
IsInt(d) == d = <<"0">> \/ (IsDigits(d) /\ d[1] # "0")
IsFrac(f) == f = <<>> \/ (f[1] = "." /\ IsDigits(Tail(f)))
IsExp(x) ==
    \/ x = <<>>
    \/ /\ x[1] \in {"e", "E"}
       /\ \/ IsDigits(Tail(x))
          \/ Len(x) >= 2 /\ x[2] \in {"+", "-"} /\ IsDigits(Tail(Tail(x)))

MatchesNumber(t) ==
    \E i, j, k \in 0..Len(t) :
        /\ i <= j /\ j <= k
        /\ IsSign(SubSeq(t, 1, i))
        /\ IsInt(SubSeq(t, i + 1, j))
        /\ IsFrac(SubSeq(t, j + 1, k))
        /\ IsExp(SubSeq(t, k + 1, Len(t)))

\* C5: a text made of '-', '+', '.', 'e', 'E' and digits is parsed to
\* Ok(Number) if and only if the whole text matches the strict JSON number
\* grammar (so a leading zero, a '.' without a digit and an exponent
\* without a digit are rejected), and such a text as the only element of an
\* array is accepted if and only if it matches.
C5_StrictNumberGrammar ==
    Done =>
        IF input # <<>> /\ input[1] = "["
        THEN LET t == SubSeq(input, 2, Len(input) - 1)
             IN  /\ IsOk(Outcome) <=> MatchesNumber(t)
                 /\ ~IsOk(Outcome) => IsErr(Outcome)
                 /\ IsOk(Outcome) =>
                       /\ Outcome[2][1] = "Array"
                       /\ Len(Outcome[2][2]) = 1
                       /\ Outcome[2][2][1][1] = "Number"
        ELSE /\ IsOk(Outcome) <=> MatchesNumber(input)
             /\ ~IsOk(Outcome) => IsErr(Outcome)
             /\ IsOk(Outcome) => Outcome[2][1] = "Number"

C5_Witness ==
    /\ Done
    /\ input = <<"[", "-", "0", "1", "]">>
    /\ IsErr(Outcome)

-----------------------------------------------------------------------------
(* SpecArray: array texts *)

MaxArrayLen == 6

ArrayChars == {<<"[">>, <<"]">>, <<",">>, <<"1">>, <<" ">>}

InitArray == \E t \in TextsOf(ArrayChars, MaxArrayLen) : Start(<<t>>)

NextArray ==
    \/ New
    \/ SkipWhitespace
    \/ Parse
    \/ ParseValue
    \/ ParseNumber
    \/ ParseArray

SpecArray == InitArray /\ [][NextArray]_vars

RECURSIVE Tokens(_)
\* The tokens of a text over ArrayChars: a run of digits is one number, a
\* space is dropped.
Tokens(t) ==
    IF t = <<>> THEN <<>>
    ELSE LET rest == Tokens(SubSeq(t, 1, Len(t) - 1))
             c == t[Len(t)]
         IN  IF c = " " THEN rest
             ELSE IF c \in Digit /\ Len(t) >= 2 /\ t[Len(t) - 1] \in Digit
             THEN Append(Pop(rest), [Top(rest) EXCEPT !.digits = Append(@, c)])
             ELSE Append(rest, [kind |-> IF c \in Digit THEN "number" ELSE c,
                                digits |-> IF c \in Digit THEN <<c>> ELSE <<>>])

RefOk(v, next) == [kind |-> "ok", v |-> v, next |-> next]
RefFail(kind) == [kind |-> kind, v |-> JsonNull, next |-> 0]

RECURSIVE RefValue(_, _), RefItems(_, _, _)
\* The JSON grammar of nested arrays of numbers, on tokens: the value that
\* starts at token i, or the kind of the first error.
RefValue(toks, i) ==
    IF i > Len(toks) THEN RefFail("other")
    ELSE IF toks[i].kind = "number"
    THEN RefOk(JsonNumber(Normalize(FALSE, DigitsToNat(toks[i].digits), 0)), i + 1)
    ELSE IF toks[i].kind = "["
    THEN IF i + 1 <= Len(toks) /\ toks[i + 1].kind = "]"
         THEN RefOk(JsonArray(<<>>), i + 2)
         ELSE RefItems(toks, i + 1, <<>>)
    ELSE RefFail("other")

\* The elements of an array from token i on, acc being those before it.
RefItems(toks, i, acc) ==
    LET item == RefValue(toks, i)
        j == item.next
    IN  IF item.kind # "ok" THEN item
        ELSE IF j > Len(toks) THEN RefFail("unterminated array")
        ELSE IF toks[j].kind = "]" THEN RefOk(JsonArray(Append(acc, item.v)), j + 1)
        ELSE IF toks[j].kind # "," THEN RefFail("wrong separator")
        ELSE IF j + 1 <= Len(toks) /\ toks[j + 1].kind = "]" THEN RefFail("trailing comma")
        ELSE RefItems(toks, j + 1, Append(acc, item.v))

\* The grammar's verdict on a whole text: one value and nothing after it.
RefParse(t) ==
    LET toks == Tokens(t)
        r == RefValue(toks, 1)
    IN  IF r.kind = "ok" /\ r.next <= Len(toks) THEN RefFail("other") ELSE r

\* C7: in an array, after an element and optional whitespace, ']' ends the
\* array with exactly the elements parsed so far, in order; ',' continues,
\* but ',' before ']' is a trailing-comma error; another character is an
\* "expected ',' or ']'" error; the end of the input is an "unterminated
\* array" error; no other array text yields a value.
C7_ArraySeparators ==
    Done =>
        LET r == RefParse(input)
        IN  /\ r.kind = "ok" => (IsOk(Outcome) /\ JsonEq(Outcome[2], r.v))
            /\ r.kind # "ok" => IsErr(Outcome)
            /\ r.kind = "trailing comma" =>
                  Outcome[2] = <<"unexptected trailing comma in array">>
            /\ r.kind = "wrong separator" =>
                  Outcome[2][1] = "expected ',' or ']' in array, found '"
            /\ r.kind = "unterminated array" => Outcome[2] = <<"unterminated array">>

C7_Witness ==
    /\ Done
    /\ input = <<"[", "1", ",", " ", "]">>
    /\ Outcome[2] = <<"unexptected trailing comma in array">>

-----------------------------------------------------------------------------
(* SpecString: string texts with escapes *)

MaxStringParts == 5

StringParts ==
    {<<"\"">>, <<"\\">>, <<"u">>, <<"n">>, <<"x">>,
     <<"0", "0", "4", "1">>, <<"0", "0", "G", "1">>,
     <<"D", "8", "3", "D", "\\", "u", "D", "E", "0", "0">>}

InitString == \E t \in TextsOf(StringParts, MaxStringParts) : Start(<<t>>)

NextString ==
    \/ New
    \/ SkipWhitespace
    \/ Parse
    \/ ParseValue
    \/ ParseNull
    \/ ParseString

SpecString == InitString /\ [][NextString]_vars

\* The hexadecimal digits after \u that denote a character: one UTF-16
\* code unit, or a high and a low surrogate.
Denoted(hex) ==
    CASE hex = <<"0", "0", "4", "1">> -> Some("A")
      [] hex = <<"D", "8", "3", "D", "\\", "u", "D", "E", "0", "0">> -> Some("U+1F600")
      [] OTHER -> None

\* C6: a string with a backslash, 'u' and four hexadecimal digits is
\* parsed to the string with the denoted character (a surrogate pair to
\* one character) and gives no ParseError; with malformed hexadecimal
\* digits it gives a ParseError.
C6_UnicodeEscape ==
    Done =>
        \A hex \in StringParts :
            input = <<"\"", "\\", "u">> \o hex \o <<"\"">> =>
                IF Denoted(hex) # None
                THEN Outcome = Ok(JsonString(Denoted(hex)))
                ELSE IsErr(Outcome)

-----------------------------------------------------------------------------
(* SpecRoundTrip: parse of the text Display writes for a value *)

MaxStrLen == 2
MaxItems == 2

StringChars == {"a", "\"", "\\", "\n", "U+0008", "U+0001"}

Strings == UNION {[1..k -> StringChars] : k \in 0..MaxStrLen}

\* 0, -0, 1, -0.5, 10 and 0.15
Floats ==
    {F64Zero(FALSE), F64Zero(TRUE), F64(FALSE, 1, 0), F64(TRUE, 5, -1),
     F64(FALSE, 1, 1), F64(FALSE, 15, -2)}

Scalars ==
    {JsonNull, JsonBoolean(TRUE), JsonBoolean(FALSE)}
        \cup {JsonNumber(n) : n \in Floats}
        \cup {JsonString(s) : s \in Strings}

\* The elements and the Object values of the values below.
Items ==
    {JsonNull, JsonBoolean(TRUE), JsonNumber(F64(TRUE, 5, -1)),
     JsonString(<<"a", "\"">>), JsonArray(<<>>), JsonArray(<<JsonNull>>),
     JsonObject(<<>>)}

Keys == {<<"a">>, <<"\"">>}

ArraysOf(V) == {JsonArray(a) : a \in UNION {[1..k -> V] : k \in 0..MaxItems}}

ObjectsOf(V) == {JsonObject(o) : o \in UNION {[K -> V] : K \in SUBSET Keys}}

RoundTripValues == Scalars \cup ArraysOf(Items) \cup ObjectsOf(Items)

InitRoundTrip == \E v \in RoundTripValues : \E t \in Display(v) : Start(<<t>>)

SpecRoundTrip == InitRoundTrip /\ [][Next]_vars

\* C3: for every value without NaN and Infinity, parsing the text Display
\* writes for it succeeds and yields a structurally equal value.
C3_RoundTrip ==
    Done =>
        \A v \in RoundTripValues :
            input \in Display(v) => (IsOk(Outcome) /\ JsonEq(Outcome[2], v))

-----------------------------------------------------------------------------
(* SpecWhitespace: a text, then the text with whitespace between tokens *)

MaxTokens == 3

TokenParts ==
    {<<"n", "u", "l", "l">>, <<"1">>, <<"\"", "x", "\"">>, <<"[">>, <<"]">>, <<",">>}

\* The tokens of the array tests of main: [1,2,3],
\* [null,true,"hello",42] and [[1,2],[3,4]].
MainTests ==
    {<< <<"[">>, <<"1">>, <<",">>, <<"2">>, <<",">>, <<"3">>, <<"]">> >>,
     << <<"[">>, <<"n", "u", "l", "l">>, <<",">>, <<"t", "r", "u", "e">>, <<",">>,
        <<"\"", "h", "e", "l", "l", "o", "\"">>, <<",">>, <<"4", "2">>, <<"]">> >>,
     << <<"[">>, <<"[">>, <<"1">>, <<",">>, <<"2">>, <<"]">>, <<",">>,
        <<"[">>, <<"3">>, <<",">>, <<"4">>, <<"]">>, <<"]">> >>}

\* A text is a sequence of tokens and spaces.
TokenTexts ==
    UNION {[1..k -> TokenParts \cup {<<" ">>}] : k \in 0..MaxTokens} \cup MainTests

\* The places of ps where a character can be inserted without splitting a
\* token: before the first part, after the last, and between two parts
\* that are not both digits of one number.
Gaps(ps) ==
    {g \in 0..Len(ps) :
        ~(g >= 1 /\ g < Len(ps) /\ AllIn(ps[g], Digit) /\ AllIn(ps[g + 1], Digit))}

Inserted(ps, g, w) == Concat(SubSeq(ps, 1, g)) \o <<w>> \o Concat(SubSeq(ps, g + 1, Len(ps)))

InitWhitespace ==
    \E ps \in TokenTexts : \E g \in Gaps(ps) : \E w \in JsonWhitespace :
        Start(<<Concat(ps), Inserted(ps, g, w)>>)

NextWhitespace ==
    \/ New
    \/ SkipWhitespace
    \/ Parse
    \/ ParseValue
    \/ ParseNull
    \/ ParseTrue
    \/ ParseString
    \/ ParseNumber
    \/ ParseArray

SpecWhitespace == InitWhitespace /\ [][NextWhitespace]_vars

\* C8: a JSON whitespace character inserted before the first token, after
\* the last or between two tokens of a text changes neither a successful
\* parse (the values are structurally equal) nor a rejection; by
\* repetition, neither does any number of such characters.
C8_WhitespaceInvariance ==
    Len(outcomes) = 2 =>
        /\ IsOk(outcomes[1]) => (IsOk(outcomes[2]) /\ JsonEq(outcomes[1][2], outcomes[2][2]))
        /\ IsErr(outcomes[1]) => IsErr(outcomes[2])

C8_Witness ==
    /\ Len(outcomes) = 2
    /\ input = <<"[", "1", ",", "\n", "2", ",", "3", "]">>
    /\ IsOk(outcomes[1])
    /\ outcomes[2] = outcomes[1]

====
